---- MODULE Spec2Model ----
(***************************************************************************)
(* Chat-context persistence of the deepagents helpers:                     *)
(*   python/helpers/persist_chat.py     (serializer, orchestrator)         *)
(*   python/helpers/mem_graph_helper.py (remote key-value store client)    *)
(*                                                                         *)
(* Two specifications share this module.  SpecCodec applies the pure       *)
(* conversion functions (_serialize_context, _deserialize_context,         *)
(* _deserialize_agents, _deserialize_log, export_json_chat) to inputs      *)
(* drawn from bounded sets.  Spec is the orchestrator state machine        *)
(* (save_tmp_chat, save_tmp_chats, load_tmp_chats, remove_chat) over the   *)
(* live contexts, the marker directories and the remote store.             *)
(***************************************************************************)
EXTENDS Integers, Sequences, FiniteSets, TLC

VARIABLES
    codecIn,    \* the argument handed to a conversion function
    codecOut,   \* what the function returned or raised
    contexts,   \* AgentContext._contexts, in insertion order
    markers,    \* names of the directories under tmp/chats
    store,      \* the remote store: context id -> value under chat_history:<id>
    instance,   \* MemGraphHelper._instance is not None
    ret,        \* the last orchestrator call: arguments, faults met, outcome
    cli         \* one run of the command line: its inputs, position, calls made

codecVars == <<codecIn, codecOut>>
orchVars == <<contexts, markers, store, instance, ret>>
cliVars == <<cli>>
vars == <<codecIn, codecOut, contexts, markers, store, instance, ret, cli>>

----------------------------------------------------------------------------
(* Bounds of the model. *)

MaxDepth == 2       \* nesting depth of the values held in data bags and kvps
MaxAgents == 3      \* agents in a chain, agent records in a stored sequence
MaxShortLog == 2    \* entries of the enumerated (short) logs
MaxMsgs == 2        \* messages in one stored or live history

(* Program constants. *)

LOG_SIZE == 1000

----------------------------------------------------------------------------
(* Python values.  A value is a record [t, v]: t is the Python type, v the *)
(* payload.  Dictionary keys are strings, modelled as tuples of            *)
(* characters so that a prefix can be tested.                              *)

PyNone == [t |-> "none", v |-> <<>>]
PyInt(n) == [t |-> "int", v |-> n]
PyStr(s) == [t |-> "str", v |-> s]
PyList(s) == [t |-> "list", v |-> s]
PyTuple(s) == [t |-> "tuple", v |-> s]
PyDict(f) == [t |-> "dict", v |-> f]
PyHandle == [t |-> "handle", v |-> <<>>]    \* a live object json cannot encode
PyAgent(i) == [t |-> "agent", v |-> i]      \* a reference to an Agent object

EmptyDict == [k \in {} |-> PyNone]
Restrict(f, S) == [k \in S |-> f[k]]
Get(d, k, default) == IF k \in DOMAIN d THEN d[k] ELSE default

Ok(x) == [exc |-> "none", val |-> x]
Raise(e) == [exc |-> e, val |-> <<>>]
KeyError(k) == [exc |-> "KeyError", val |-> <<k>>]

(* Python truthiness of a value. *)
Truthy(o) ==
    CASE o.t = "none" -> FALSE
      [] o.t = "int" -> o.v # 0
      [] o.t = "str" -> o.v # ""
      [] o.t \in {"list", "tuple"} -> Len(o.v) > 0
      [] o.t = "dict" -> DOMAIN o.v # {}
      [] OTHER -> TRUE

----------------------------------------------------------------------------
(* JSON text, up to white space: the document json.dumps writes.           *)

JNull == [t |-> "jnull", v |-> <<>>]
JNum(n) == [t |-> "jnum", v |-> n]
JStr(s) == [t |-> "jstr", v |-> s]
JArr(s) == [t |-> "jarr", v |-> s]
JObj(f) == [t |-> "jobj", v |-> f]
NotJson == [t |-> "garbage", v |-> <<>>]    \* text that is no JSON document

(* is_json_serializable: json.dumps(item) with no default hook succeeds. *)
RECURSIVE is_json_serializable(_)
is_json_serializable(item) ==
    CASE item.t \in {"none", "int", "str"} -> TRUE
      [] item.t \in {"list", "tuple"} ->
            \A i \in DOMAIN item.v : is_json_serializable(item.v[i])
      [] item.t = "dict" ->
            \A k \in DOMAIN item.v : is_json_serializable(item.v[k])
      [] OTHER -> FALSE

(* The default hook _safe_json_serialize hands to json.dumps. *)
serializer(o) ==
    IF o.t = "dict"
    THEN PyDict(Restrict(o.v, {k \in DOMAIN o.v : is_json_serializable(o.v[k])}))
    ELSE IF o.t \in {"list", "tuple"}
    THEN PyList(SelectSeq(o.v, is_json_serializable))
    ELSE IF is_json_serializable(o)
    THEN o
    ELSE PyNone

(* json's encoder: dictionaries, lists, tuples and scalars are written     *)
(* natively, member by member; the default hook is called only for an      *)
(* object the encoder has no rule for, and its return value is encoded in  *)
(* the object's place.                                                     *)
RECURSIVE JsonEncode(_)
JsonEncode(o) ==
    CASE o.t = "none" -> JNull
      [] o.t = "int" -> JNum(o.v)
      [] o.t = "str" -> JStr(o.v)
      [] o.t \in {"list", "tuple"} -> JArr([i \in DOMAIN o.v |-> JsonEncode(o.v[i])])
      [] o.t = "dict" -> JObj([k \in DOMAIN o.v |-> JsonEncode(o.v[k])])
      [] OTHER -> JsonEncode(serializer(o))

(* json.dumps(obj): TypeError on a value it cannot encode. *)
json_dumps(obj) ==
    IF is_json_serializable(obj) THEN Ok(JsonEncode(obj)) ELSE Raise("TypeError")

(* json.dumps(obj, default=serializer) *)
_safe_json_serialize(obj) == Ok(JsonEncode(obj))

RECURSIVE JsonDecode(_)
JsonDecode(j) ==
    CASE j.t = "jnull" -> PyNone
      [] j.t = "jnum" -> PyInt(j.v)
      [] j.t = "jstr" -> PyStr(j.v)
      [] j.t = "jarr" -> PyList([i \in DOMAIN j.v |-> JsonDecode(j.v[i])])
      [] j.t = "jobj" -> PyDict([k \in DOMAIN j.v |-> JsonDecode(j.v[k])])

(* json.loads(text) *)
json_loads(text) ==
    IF text.t = "garbage" THEN Raise("JSONDecodeError") ELSE Ok(JsonDecode(text))

----------------------------------------------------------------------------
(* The objects persist_chat.py works on.                                   *)
(*   datetime   [secs, us]                                                 *)
(*   History    a sequence of messages [ai, content]                       *)
(*   Agent      [number, data, history]; data maps keys to values, the     *)
(*              chain links among them as references into the context's    *)
(*              sequence of agents                                         *)
(*   LogItem    [no, type, heading, content, kvps, temp]; kvps is <<>>     *)
(*              (None) or <<d>> for a mapping d                            *)
(*   Log        [guid, logs, progress, progress_no, updates]               *)
(*   AgentContext [id, name, created_at, type, last_message, agent0,       *)
(*              streaming_agent, log, paused, agents]; name and the two    *)
(*              timestamps are <<>> (None) or <<x>>; agent0 and            *)
(*              streaming_agent are references into agents, the Agent      *)
(*              objects built for the context                              *)

DATA_NAME_SUPERIOR == <<"_", "s", "u", "p", "e", "r", "i", "o", "r">>
DATA_NAME_SUBORDINATE == <<"_", "s", "u", "b", "o", "r", "d", "i", "n", "a", "t", "e">>

(* k.startswith("_") *)
StartsWithUnderscore(k) == Len(k) > 0 /\ k[1] = "_"

(* datetime.fromtimestamp(0) *)
EpochZero == [secs |-> 0, us |-> 0]

(* A variant of isoformat that never writes the fraction. *)
isoformat_NoFraction(dt) == <<dt.secs>>

(* datetime.isoformat: the fraction is written only when it is not zero. *)
isoformat(dt) == IF dt.us = 0 THEN <<dt.secs>> ELSE <<dt.secs, dt.us>>

(* datetime.fromisoformat *)
fromisoformat(s) == [secs |-> s[1], us |-> IF Len(s) > 1 THEN s[2] ELSE 0]

(* AgentContextType(value) and AgentContextType.value *)
TypeValue(ty) ==
    CASE ty = "USER" -> "user" [] ty = "TASK" -> "task" [] ty = "BACKGROUND" -> "background"
AgentContextType(value) ==
    CASE value = "user" -> "USER" [] value = "task" -> "TASK"
      [] value = "background" -> "BACKGROUND"

(* History.serialize, history.deserialize_history, History.output,         *)
(* History.add_message: the history text carries the messages; the empty   *)
(* text is the empty history.                                              *)
HistorySerialize(h) == [text |-> h]
deserialize_history(text) == text.text
HistoryOutput(h) == h
add_message(h, ai, content) == Append(h, [ai |-> ai, content |-> content])
EmptyHistoryText == [text |-> <<>>]

(* Agent(number, config, context) *)
NewAgent(number) == [number |-> number, data |-> EmptyDict, history |-> <<>>]

(* Agent.set_data(field, value) *)
set_data(agent, field, value) ==
    [agent EXCEPT !.data =
        [k \in DOMAIN agent.data \cup {field} |->
            IF k = field THEN value ELSE agent.data[k]]]

(* Log() followed by Log.set_initial_progress() *)
InitialProgress == "Waiting for input"
InitialProgressNo == 0
NewLog(guid) ==
    [guid |-> guid, logs |-> <<>>, progress |-> InitialProgress,
     progress_no |-> InitialProgressNo, updates |-> <<>>]

(* LogItem.output() *)
LogItemOutput(item) ==
    [no |-> item.no, type |-> item.type, heading |-> item.heading,
     content |-> item.content, temp |-> item.temp, kvps |-> item.kvps]

(* seq[-n:] *)
LastN(seq, n) == IF Len(seq) <= n THEN seq ELSE SubSeq(seq, Len(seq) - n + 1, Len(seq))

----------------------------------------------------------------------------
(* The serializer. *)

_serialize_agent(agent) ==
    [number |-> agent.number,
     data |-> Restrict(agent.data, {k \in DOMAIN agent.data : ~StartsWithUnderscore(k)}),
     history |-> HistorySerialize(agent.history)]

_serialize_log(log) ==
    [guid |-> log.guid,
     logs |-> [i \in DOMAIN LastN(log.logs, LOG_SIZE) |->
                  LogItemOutput(LastN(log.logs, LOG_SIZE)[i])],
     progress |-> log.progress,
     progress_no |-> log.progress_no]

(* while agent: agents.append(...); agent = agent.data.get(SUBORDINATE) *)
RECURSIVE SerializeChain(_, _)
SerializeChain(heap, agent) ==
    IF ~Truthy(agent) THEN <<>>
    ELSE <<_serialize_agent(heap[agent.v])>>
         \o SerializeChain(heap, Get(heap[agent.v].data, DATA_NAME_SUBORDINATE, PyNone))

_serialize_context(context) ==
    [id |-> context.id,
     name |-> context.name,
     created_at |-> IF context.created_at # <<>>
                    THEN isoformat(context.created_at[1]) ELSE isoformat(EpochZero),
     type |-> TypeValue(context.type),
     last_message |-> IF context.last_message # <<>>
                      THEN isoformat(context.last_message[1]) ELSE isoformat(EpochZero),
     agents |-> SerializeChain(context.agents, context.agent0),
     streaming_agent |-> IF Truthy(context.streaming_agent)
                         THEN context.agents[context.streaming_agent.v].number ELSE 0,
     log |-> _serialize_log(context.log)]

----------------------------------------------------------------------------
(* The deserializer.  A stored record is a mapping that may lack fields:   *)
(* DOMAIN tells which it has.                                              *)

(* uuid.uuid4(), as the guid of a log and as the id of a new context *)
NewGuid == "uuid4"
NewContextId == "uuid4"

(* One LogItem of _deserialize_log's loop; i is the running index. *)
DeserializeLogItem(item_data, i) ==
    [no |-> i,
     type |-> item_data.type,
     heading |-> Get(item_data, "heading", ""),
     content |-> Get(item_data, "content", ""),
     kvps |-> IF item_data.kvps # <<>> /\ DOMAIN item_data.kvps[1] # {}
              THEN <<item_data.kvps[1]>> ELSE <<>>,
     temp |-> Get(item_data, "temp", FALSE)]

(* The key whose subscript raises KeyError in an entry, "" when none does: *)
(* item_data["type"] is evaluated before item_data["kvps"].                *)
MissingKey(item_data) ==
    IF "type" \notin DOMAIN item_data THEN "type"
    ELSE IF "kvps" \notin DOMAIN item_data THEN "kvps"
    ELSE ""

(* data is <<>> for None, <<d>> for a mapping d. *)
_deserialize_log(data) ==
    IF data = <<>> THEN Raise("AttributeError")
    ELSE LET items == Get(data[1], "logs", <<>>)
             bad == {i \in DOMAIN items : MissingKey(items[i]) # ""}
             first == CHOOSE i \in bad : \A j \in bad : i <= j
         IN  IF bad # {}
             THEN KeyError(MissingKey(items[first]))
             ELSE Ok([NewLog(Get(data[1], "guid", NewGuid)) EXCEPT
                        !.logs = [i \in DOMAIN items |-> DeserializeLogItem(items[i], i - 1)],
                        !.updates = [i \in DOMAIN items |-> i - 1]])

(* A variant of the loop that never records the previous agent, so no     *)
(* link is ever set.                                                       *)
RECURSIVE DeserializeAgentsLoop_NoPrev(_, _, _, _, _)
DeserializeAgentsLoop_NoPrev(agents, i, heap, prev, zero) ==
    IF i > Len(agents) THEN Ok([heap |-> heap, zero |-> zero])
    ELSE IF "number" \notin DOMAIN agents[i] THEN KeyError("number")
    ELSE LET ag == agents[i]
             current == PyAgent(Len(heap) + 1)
             made == [number |-> ag.number,
                      data |-> Get(ag, "data", EmptyDict),
                      history |-> deserialize_history(Get(ag, "history", EmptyHistoryText))]
         IN  DeserializeAgentsLoop_NoPrev(agents, i + 1, Append(heap, made), prev,
                                          IF ~Truthy(zero) THEN current ELSE zero)

(* The loop of _deserialize_agents over agents[i..]; heap holds the Agent  *)
(* objects built so far, prev and zero are references or None.             *)
RECURSIVE DeserializeAgentsLoop(_, _, _, _, _)
DeserializeAgentsLoop(agents, i, heap, prev, zero) ==
    IF i > Len(agents) THEN Ok([heap |-> heap, zero |-> zero])
    ELSE IF "number" \notin DOMAIN agents[i] THEN KeyError("number")
    ELSE LET ag == agents[i]
             current == PyAgent(Len(heap) + 1)
             made == [number |-> ag.number,
                      data |-> Get(ag, "data", EmptyDict),
                      history |-> deserialize_history(Get(ag, "history", EmptyHistoryText))]
             heap1 == Append(heap, made)
             heap2 == IF Truthy(prev)
                      THEN [heap1 EXCEPT
                              ![prev.v] = set_data(@, DATA_NAME_SUBORDINATE, current),
                              ![current.v] = set_data(@, DATA_NAME_SUPERIOR, prev)]
                      ELSE heap1
         IN  DeserializeAgentsLoop(agents, i + 1, heap2, current,
                                   IF ~Truthy(zero) THEN current ELSE zero)

(* Returns the Agent objects built and the reference to the head. *)
_deserialize_agents(agents) ==
    LET r == DeserializeAgentsLoop(agents, 1, <<>>, PyNone, PyNone)
    IN  IF r.exc # "none" THEN r
        ELSE IF Truthy(r.val.zero)
        THEN Ok([heap |-> r.val.heap, agent0 |-> r.val.zero])
        ELSE Ok([heap |-> <<NewAgent(0)>>, agent0 |-> PyAgent(1)])

(* A variant that never leaves the head of the chain. *)
ResolveStreaming_NoWalk(heap, streaming_agent, ordinal) == streaming_agent

(* while streaming_agent and streaming_agent.number != ordinal: follow the *)
(* subordinate link                                                        *)
RECURSIVE ResolveStreaming(_, _, _)
ResolveStreaming(heap, streaming_agent, ordinal) ==
    IF Truthy(streaming_agent) /\ heap[streaming_agent.v].number # ordinal
    THEN ResolveStreaming(heap,
            Get(heap[streaming_agent.v].data, DATA_NAME_SUBORDINATE, PyNone), ordinal)
    ELSE streaming_agent

(* A variant that subscripts created_at, last_message and type. *)
_deserialize_context_NoBackcompat(data) ==
    IF {"created_at", "last_message", "type"} \subseteq DOMAIN data
    THEN Ok([id |-> Get(data, "id", NewContextId),
             name |-> Get(data, "name", <<>>),
             created_at |-> <<fromisoformat(data.created_at)>>,
             type |-> AgentContextType(data.type),
             last_message |-> <<fromisoformat(data.last_message)>>,
             paused |-> FALSE])
    ELSE KeyError("created_at")

_deserialize_context(data) ==
    LET log == _deserialize_log(IF "log" \in DOMAIN data THEN <<data.log>> ELSE <<>>)
        chain == _deserialize_agents(Get(data, "agents", <<>>))
    IN  IF log.exc # "none" THEN log
        ELSE IF chain.exc # "none" THEN chain
        ELSE Ok([id |-> Get(data, "id", NewContextId),
                 name |-> Get(data, "name", <<>>),
                 created_at |-> <<fromisoformat(Get(data, "created_at", isoformat(EpochZero)))>>,
                 type |-> AgentContextType(Get(data, "type", TypeValue("USER"))),
                 last_message |-> <<fromisoformat(Get(data, "last_message", isoformat(EpochZero)))>>,
                 log |-> log.val,
                 paused |-> FALSE,
                 agents |-> chain.val.heap,
                 agent0 |-> chain.val.agent0,
                 streaming_agent |-> ResolveStreaming(chain.val.heap, chain.val.agent0,
                                                     Get(data, "streaming_agent", 0))])

(* export_json_chat: _safe_json_serialize over the serialized context.     *)
(* The result is the JSON document; the data bags and the kvps mappings    *)
(* are the parts that hold arbitrary values, the rest is scalars.          *)
ExportAgent(a) == [a EXCEPT !.data = _safe_json_serialize(PyDict(a.data)).val]
ExportLogItem(e) ==
    [e EXCEPT !.kvps = IF e.kvps = <<>> THEN JNull
                       ELSE _safe_json_serialize(PyDict(e.kvps[1])).val]
export_json_chat(context) ==
    LET data == _serialize_context(context)
    IN  Ok([data EXCEPT
              !.agents = [i \in DOMAIN data.agents |-> ExportAgent(data.agents[i])],
              !.log = [data.log EXCEPT
                         !.logs = [i \in DOMAIN data.log.logs |->
                                      ExportLogItem(data.log.logs[i])]]])

----------------------------------------------------------------------------
(* The inputs the conversion functions are applied to.                     *)

KeyA == <<"a">>
KeyB == <<"b">>
KeyTmp == <<"_", "t", "m", "p">>

SeqsUpTo(S, n) == UNION {[1..k -> S] : k \in 0..n}

(* Values nested to depth d: scalars, a live handle, and lists, tuples and *)
(* mappings holding a value of the depth below, alone or beside a scalar.  *)
Leaves == {PyInt(1), PyNone, PyHandle}
RECURSIVE Vals(_)
Vals(d) ==
    IF d = 0 THEN Leaves
    ELSE LET S == Vals(d - 1)
         IN  S \cup {PyList(<<x>>) : x \in S}
               \cup {PyList(<<x, PyInt(1)>>) : x \in S}
               \cup {PyTuple(<<PyInt(1), x>>) : x \in S}
               \cup {PyDict(KeyA :> x) : x \in S}
               \cup {PyDict(KeyA :> x @@ KeyB :> PyInt(1)) : x \in S}

MsgAi == [ai |-> TRUE, content |-> PyStr("hello")]
MsgUser == [ai |-> FALSE, content |-> PyStr("question")]
Histories == SeqsUpTo({MsgAi, MsgUser}, MaxMsgs)

Times == {<<>>, <<[secs |-> 5, us |-> 0]>>, <<[secs |-> 7, us |-> 3]>>}
Names == {<<>>, <<"chat">>}
Types == {"USER", "TASK", "BACKGROUND"}

(* A live chain of n agents: numbers 0..n-1, each linked to its neighbours *)
(* through its data bag.                                                   *)
WithLinks(d, i, n) ==
    [k \in DOMAIN d \cup (IF i < n THEN {DATA_NAME_SUBORDINATE} ELSE {})
                    \cup (IF i > 1 THEN {DATA_NAME_SUPERIOR} ELSE {}) |->
        IF k = DATA_NAME_SUBORDINATE THEN PyAgent(i + 1)
        ELSE IF k = DATA_NAME_SUPERIOR THEN PyAgent(i - 1)
        ELSE d[k]]
LiveChain(nodes) ==
    [i \in DOMAIN nodes |->
        [number |-> i - 1,
         data |-> WithLinks(nodes[i].data, i, Len(nodes)),
         history |-> nodes[i].history]]
PlainNode == [data |-> KeyA :> PyInt(1), history |-> <<MsgUser, MsgAi>>]

(* A live log over the given items. *)
ItemInfo == [type |-> "info", heading |-> "h", content |-> "c", kvps |-> <<>>, temp |-> FALSE]
ItemKvps ==
    [type |-> "error", heading |-> "", content |-> "", kvps |-> <<KeyA :> PyInt(1)>>,
     temp |-> TRUE]
ItemEmptyKvps ==
    [type |-> "info", heading |-> "h", content |-> "", kvps |-> <<EmptyDict>>, temp |-> FALSE]
LiveLog(items, progress, progress_no) ==
    [guid |-> "g",
     logs |-> [i \in DOMAIN items |->
                 [no |-> i - 1, type |-> items[i].type, heading |-> items[i].heading,
                  content |-> items[i].content, kvps |-> items[i].kvps,
                  temp |-> items[i].temp]],
     progress |-> progress,
     progress_no |-> progress_no,
     updates |-> [i \in DOMAIN items |-> i - 1]]
PlainLog == LiveLog(<<ItemInfo>>, InitialProgress, InitialProgressNo)
LongItems(n) == [i \in 1..n |-> IF i = 1 THEN ItemKvps ELSE ItemInfo]

MkContext(id, name, created_at, type, last_message, nodes, streaming_agent, log) ==
    [id |-> id, name |-> name, created_at |-> created_at, type |-> type,
     last_message |-> last_message, log |-> log, paused |-> FALSE,
     agents |-> LiveChain(nodes), agent0 |-> PyAgent(1),
     streaming_agent |-> streaming_agent]

(* Contexts that vary in their scalar fields and in the shape of the chain *)
ShapeContexts ==
    {MkContext("c1", nm, cr, ty, lm, [i \in 1..n |-> PlainNode], sa, PlainLog) :
        nm \in Names, cr \in Times, ty \in Types, lm \in Times \ {<<[secs |-> 5, us |-> 0]>>},
        n \in 1..MaxAgents, sa \in {PyNone} \cup {PyAgent(i) : i \in 1..MaxAgents}}
(* ... in the values of a data bag, with or without a transient key ... *)
DataContexts ==
    {MkContext("c1", <<>>, <<[secs |-> 5, us |-> 0]>>, "USER", <<[secs |-> 7, us |-> 3]>>,
               <<[data |-> d, history |-> h]>>, PyNone, PlainLog) :
        d \in {KeyA :> x : x \in Vals(MaxDepth)}
              \cup {KeyA :> x @@ KeyTmp :> PyInt(1) : x \in Vals(1)}
              \cup {EmptyDict},
        h \in Histories}
(* ... and in their logs. *)
LiveLogs ==
    {LiveLog(items, pr[1], pr[2]) :
        items \in SeqsUpTo({ItemInfo, ItemKvps, ItemEmptyKvps}, MaxShortLog)
                  \cup {LongItems(LOG_SIZE), LongItems(LOG_SIZE + 1)},
        pr \in {<<InitialProgress, InitialProgressNo>>, <<"Working", 4>>}}
    \cup {LiveLog(<<[ItemInfo EXCEPT !.kvps = <<KeyA :> x>>]>>,
                  InitialProgress, InitialProgressNo) : x \in Vals(1)}
LogContexts ==
    {MkContext("c1", <<>>, <<[secs |-> 5, us |-> 0]>>, "USER", <<[secs |-> 7, us |-> 3]>>,
               <<PlainNode>>, PyNone, log) : log \in LiveLogs}
Contexts ==
    {c \in ShapeContexts \cup DataContexts \cup LogContexts :
        c.streaming_agent.t = "none" \/ c.streaming_agent.v <= Len(c.agents)}


(* Stored agent records: numbered as stored, possibly without data and     *)
(* history, possibly without a number.                                     *)
AgentRec(n) ==
    [number |-> n, data |-> KeyA :> PyInt(n), history |-> HistorySerialize(<<MsgUser>>)]
StoredAgentSeqs ==
    SeqsUpTo({AgentRec(n) : n \in 0..(MaxAgents - 1)}, MaxAgents)
    \cup {<<[number |-> 0]>>,
          <<AgentRec(0), [number |-> 1]>>,
          <<AgentRec(0), [data |-> KeyA :> PyInt(1)]>>}

(* Stored log entries and logs. *)
StoredItem ==
    [no |-> 9, type |-> "info", heading |-> "h", content |-> "c",
     kvps |-> <<KeyA :> PyInt(1)>>, temp |-> TRUE]
Without(d, fields) == Restrict(d, DOMAIN d \ fields)
StoredItems ==
    {Without(StoredItem, fs) :
        fs \in {{}, {"no"}, {"type"}, {"kvps"}, {"heading"}, {"content"}, {"temp"},
                {"heading", "content", "temp"}, {"heading", "content", "kvps", "temp"}}}
    \cup {[StoredItem EXCEPT !.kvps = <<>>], [StoredItem EXCEPT !.kvps = <<EmptyDict>>]}
StoredLog(items) == [guid |-> "g", logs |-> items, progress |-> "Working", progress_no |-> 4]
StoredLogs ==
    {<<StoredLog(items)>> : items \in SeqsUpTo(StoredItems, MaxShortLog)}
    \cup {<<>>, <<[guid |-> "g"]>>, <<[logs |-> <<StoredItem>>]>>}

(* Stored context records: complete, or lacking the fields a legacy or     *)
(* hand-made record may lack.                                              *)
FullRecord(agents, streaming_agent) ==
    [id |-> "c1", name |-> <<"chat">>, created_at |-> <<7, 3>>, type |-> "task",
     last_message |-> <<5>>, agents |-> agents, streaming_agent |-> streaming_agent,
     log |-> StoredLog(<<StoredItem>>)]
StoredRecords ==
    {Without(FullRecord(ag, sa), fs) :
        ag \in StoredAgentSeqs, sa \in 0..MaxAgents,
        fs \in {{}, {"streaming_agent"}, {"created_at", "last_message", "type"},
                {"log"}, {"id", "name"}, {"agents"},
                {"created_at", "last_message", "type", "name", "streaming_agent"}}}

----------------------------------------------------------------------------
(* SpecCodec: one conversion function applied to one input.                *)

Idle == [op |-> "none"]

CliIdle == cli = [pc |-> "none"]

OrchIdle ==
    /\ contexts = <<>>
    /\ markers = {}
    /\ store = <<>>
    /\ instance = FALSE
    /\ ret = Idle

CodecInit ==
    /\ \/ \E c \in Contexts : codecIn = [kind |-> "context", val |-> c]
       \/ \E a \in StoredAgentSeqs : codecIn = [kind |-> "agents", val |-> a]
       \/ \E l \in StoredLogs : codecIn = [kind |-> "log", val |-> l]
       \/ \E r \in StoredRecords : codecIn = [kind |-> "record", val |-> r]
    /\ codecOut = Idle
    /\ OrchIdle
    /\ CliIdle

(* _deserialize_context(_serialize_context(c)) *)
RoundTrip ==
    /\ codecOut.op = "none"
    /\ codecIn.kind = "context"
    /\ codecOut' = [op |-> "roundtrip",
                    data |-> _serialize_context(codecIn.val),
                    res |-> _deserialize_context(_serialize_context(codecIn.val))]
    /\ UNCHANGED <<codecIn, orchVars, cliVars>>

ExportJsonChat ==
    /\ codecOut.op = "none"
    /\ codecIn.kind = "context"
    /\ codecOut' = [op |-> "export_json_chat", res |-> export_json_chat(codecIn.val)]
    /\ UNCHANGED <<codecIn, orchVars, cliVars>>

DeserializeAgents ==
    /\ codecOut.op = "none"
    /\ codecIn.kind = "agents"
    /\ codecOut' = [op |-> "_deserialize_agents", res |-> _deserialize_agents(codecIn.val)]
    /\ UNCHANGED <<codecIn, orchVars, cliVars>>

DeserializeLog ==
    /\ codecOut.op = "none"
    /\ codecIn.kind = "log"
    /\ codecOut' = [op |-> "_deserialize_log", res |-> _deserialize_log(codecIn.val)]
    /\ UNCHANGED <<codecIn, orchVars, cliVars>>

DeserializeContext ==
    /\ codecOut.op = "none"
    /\ codecIn.kind = "record"
    /\ codecOut' = [op |-> "_deserialize_context", res |-> _deserialize_context(codecIn.val)]
    /\ UNCHANGED <<codecIn, orchVars, cliVars>>

CodecNext ==
    \/ RoundTrip
    \/ ExportJsonChat
    \/ DeserializeAgents
    \/ DeserializeLog
    \/ DeserializeContext

SpecCodec == CodecInit /\ [][CodecNext]_vars

----------------------------------------------------------------------------
(* Properties of the conversion functions (checked under SpecCodec).       *)

(* The agents of a chain in the order a walk from agent0 along the         *)
(* subordinate links reaches them.                                         *)
RECURSIVE Walk(_, _)
Walk(heap, agent) ==
    IF agent.t # "agent" THEN <<>>
    ELSE <<agent.v>> \o Walk(heap, Get(heap[agent.v].data, DATA_NAME_SUBORDINATE, PyNone))

NoTransientKeys(c) ==
    \A i \in DOMAIN c.agents : \A k \in DOMAIN c.agents[i].data :
        StartsWithUnderscore(k) => k \in {DATA_NAME_SUBORDINATE, DATA_NAME_SUPERIOR}
ProgressInitial(c) ==
    c.log.progress = InitialProgress /\ c.log.progress_no = InitialProgressNo
LogFields(log) ==
    [i \in DOMAIN log.logs |->
        [type |-> log.logs[i].type, heading |-> log.logs[i].heading,
         content |-> log.logs[i].content, kvps |-> log.logs[i].kvps,
         temp |-> log.logs[i].temp]]
SameFields(c, d) ==
    /\ d.id = c.id
    /\ d.created_at = c.created_at
    /\ d.last_message = c.last_message
    /\ d.agent0 = c.agent0
    /\ d.agents = c.agents
    /\ LogFields(d.log) = LogFields(c.log)
RoundTripCase ==
    /\ codecOut.op = "roundtrip"
    /\ NoTransientKeys(codecIn.val)
    /\ ProgressInitial(codecIn.val)
(* What the serializer does not carry over: an unset timestamp (written as *)
(* epoch zero), the log entries before the last LOG_SIZE, an empty kvps    *)
(* mapping (read back as None).                                            *)
Carried(c) ==
    /\ c.created_at # <<>>
    /\ c.last_message # <<>>
    /\ Len(c.log.logs) <= LOG_SIZE
    /\ \A i \in DOMAIN c.log.logs :
          c.log.logs[i].kvps = <<>> \/ DOMAIN c.log.logs[i].kvps[1] # {}

(* C1, as stated: for every context without '_'-prefixed data keys (the    *)
(* chain links apart) and with initial progress counters,                  *)
(* _deserialize_context(_serialize_context(c)) equals c in id, timestamps, *)
(* chain structure, per-node data, history and each log entry's            *)
(* type/heading/content/kvps/temp.                                         *)
C1_RoundTrip_AsStated ==
    RoundTripCase =>
        /\ codecOut.res.exc = "none"
        /\ SameFields(codecIn.val, codecOut.res.val)

(* C1, amended: the round trip reproduces those fields for every such      *)
(* context whose two timestamps are set, whose log has at most LOG_SIZE    *)
(* entries and none of whose log entries has an empty kvps mapping.        *)
C1_RoundTrip ==
    (RoundTripCase /\ Carried(codecIn.val)) =>
        /\ codecOut.res.exc = "none"
        /\ SameFields(codecIn.val, codecOut.res.val)

C1_Witness ==
    /\ RoundTripCase
    /\ Carried(codecIn.val)
    /\ Len(codecIn.val.agents) >= 2
    /\ codecIn.val.created_at[1].us # 0
    /\ Len(codecIn.val.log.logs) >= 1
    /\ Len(codecIn.val.agents[1].history) >= 2
    /\ codecOut.res.exc = "none"

(* The value export is meant to write: every member that JSON cannot       *)
(* represent removed from its mapping or sequence, at every depth.         *)
Representable(o) == o.t \notin {"handle", "agent"}
RECURSIVE Prune(_)
Prune(o) ==
    CASE o.t \in {"list", "tuple"} ->
            LET kept == SelectSeq(o.v, Representable)
            IN  PyList([i \in DOMAIN kept |-> Prune(kept[i])])
      [] o.t = "dict" ->
            PyDict([k \in {x \in DOMAIN o.v : Representable(o.v[x])} |-> Prune(o.v[k])])
      [] OTHER -> o

(* C2: export_json_chat never aborts on a value JSON cannot represent, and *)
(* its output omits such a value's key or element at every depth, keeping  *)
(* every other member unchanged.                                           *)
C2_NonSerializableOmitted ==
    codecOut.op = "export_json_chat" =>
        /\ codecOut.res.exc = "none"
        /\ LET data == _serialize_context(codecIn.val)
               out == codecOut.res.val
           IN  /\ \A i \in DOMAIN data.agents :
                     out.agents[i].data = JsonEncode(Prune(PyDict(data.agents[i].data)))
               /\ \A i \in DOMAIN data.log.logs :
                     data.log.logs[i].kvps # <<>> =>
                        out.log.logs[i].kvps
                            = JsonEncode(Prune(PyDict(data.log.logs[i].kvps[1])))

AgentsCase ==
    /\ codecOut.op = "_deserialize_agents"
    /\ \A i \in DOMAIN codecIn.val : "number" \in DOMAIN codecIn.val[i]
(* The n nodes built form one chain, head first. *)
Linked(heap, agent0, n) ==
    /\ Len(heap) = n
    /\ agent0 = PyAgent(1)
    /\ Walk(heap, agent0) = [i \in 1..n |-> i]
    /\ \A i \in 1..(n - 1) :
          /\ Get(heap[i].data, DATA_NAME_SUBORDINATE, PyNone) = PyAgent(i + 1)
          /\ Get(heap[i + 1].data, DATA_NAME_SUPERIOR, PyNone) = PyAgent(i)
    /\ DATA_NAME_SUBORDINATE \notin DOMAIN heap[n].data
    /\ DATA_NAME_SUPERIOR \notin DOMAIN heap[1].data
SingleRoot(heap, agent0) ==
    /\ Len(heap) = 1
    /\ agent0 = PyAgent(1)
    /\ heap[1].number = 0
    /\ DOMAIN heap[1].data = {}

StreamingHits(data, context) ==
    LET w == Walk(context.agents, context.agent0)
    IN  {j \in DOMAIN w : context.agents[w[j]].number = Get(data, "streaming_agent", 0)}
Least(S) == CHOOSE x \in S : \A y \in S : x <= y

(* C9: _deserialize_context resolves streaming_agent to the first node, in *)
(* the walk from agent0, whose number is the stored ordinal, and to None   *)
(* when no node has that number.                                           *)
C9_StreamingAgent ==
    (codecOut.op = "_deserialize_context" /\ codecOut.res.exc = "none") =>
        LET context == codecOut.res.val
            w == Walk(context.agents, context.agent0)
            hits == StreamingHits(codecIn.val, context)
        IN  IF hits # {}
            THEN /\ context.streaming_agent.t = "agent"
                 /\ context.streaming_agent.v = w[Least(hits)]
            ELSE context.streaming_agent.t = "none"

C9_Witness ==
    /\ codecOut.op = "_deserialize_context"
    /\ codecOut.res.exc = "none"
    /\ Cardinality(StreamingHits(codecIn.val, codecOut.res.val)) >= 2
    /\ Least(StreamingHits(codecIn.val, codecOut.res.val)) >= 2
    /\ codecOut.res.val.streaming_agent.t = "agent"

(* C10: _deserialize_log fails exactly when an entry lacks type; an entry  *)
(* lacking heading, content, kvps or temp is loaded with "", "", None and  *)
(* False in their place.                                                   *)
C10_LogDefaults ==
    (codecOut.op = "_deserialize_log" /\ codecIn.val # <<>>) =>
        LET items == Get(codecIn.val[1], "logs", <<>>)
        IN  /\ codecOut.res.exc # "none" <=> \E i \in DOMAIN items : "type" \notin DOMAIN items[i]
            /\ codecOut.res.exc = "none" =>
                  /\ Len(codecOut.res.val.logs) = Len(items)
                  /\ \A i \in DOMAIN items :
                        LET item == codecOut.res.val.logs[i]
                        IN  /\ item.type = items[i].type
                            /\ item.heading = Get(items[i], "heading", "")
                            /\ item.content = Get(items[i], "content", "")
                            /\ item.temp = Get(items[i], "temp", FALSE)
                            /\ "kvps" \notin DOMAIN items[i] => item.kvps = <<>>

(* The record lacks the three fields older chats were written without. *)
LegacyRecord(data) == DOMAIN data \cap {"created_at", "last_message", "type"} = {}

(* The rest of the record loads: its log and its agent records. *)
RestLoads(data) ==
    /\ "log" \in DOMAIN data
    /\ _deserialize_log(<<data.log>>).exc = "none"
    /\ _deserialize_agents(Get(data, "agents", <<>>)).exc = "none"

(* C11: _deserialize_context on a stored record lacking created_at,        *)
(* last_message and type does not raise, and yields a context whose        *)
(* created_at and last_message are the epoch-zero timestamp and whose type *)
(* is USER.                                                                *)
C11_LegacyTolerance ==
    (/\ codecOut.op = "_deserialize_context"
     /\ LegacyRecord(codecIn.val)
     /\ RestLoads(codecIn.val)) =>
        /\ codecOut.res.exc = "none"
        /\ codecOut.res.val.created_at = <<EpochZero>>
        /\ codecOut.res.val.last_message = <<EpochZero>>
        /\ codecOut.res.val.type = "USER"

C11_Witness ==
    /\ codecOut.op = "_deserialize_context"
    /\ LegacyRecord(codecIn.val)
    /\ "name" \notin DOMAIN codecIn.val
    /\ Len(codecIn.val.agents) >= 2
    /\ codecOut.res.exc = "none"
    /\ codecOut.res.val.type = "USER"
    /\ codecOut.res.val.name = <<>>


----------------------------------------------------------------------------
(* The remote store and its client (mem_graph_helper.py).                  *)
(* A stored value is [present, quoted, doc]: present is FALSE for a key    *)
(* the store answers "(nil)" for; quoted tells whether the text is wrapped *)
(* in single quotes; doc is the JSON document between them, or NotJson.    *)

Nil == [present |-> FALSE, quoted |-> FALSE, doc |-> JNull]
Quoted(doc) == [present |-> TRUE, quoted |-> TRUE, doc |-> doc]

(* response_str[1:-1] when it starts and ends with a quote *)
StripQuotes(text) == IF text.quoted THEN [text EXCEPT !.quoted = FALSE] ELSE text

(* json.loads of a response text: text still in quotes is no JSON. *)
LoadsText(text) == IF text.quoted THEN Raise("JSONDecodeError") ELSE json_loads(text.doc)

(* MemGraphHelper.__init__ runs _get_csrf_token, the session handshake,    *)
(* once for every object constructed; the operations below report in       *)
(* handshakes how many times they ran it.  A handshake that fails leaves   *)
(* csrf_token None and raises nothing.                                     *)

(* MemGraphHelper.load_history: sent tells whether the GET command got an  *)
(* answer; a transport error, "(nil)" and text that does not decode all    *)
(* give the empty list.                                                    *)
load_history(kv, conversation_id, sent) ==
    IF ~sent \/ ~kv[conversation_id].present THEN PyList(<<>>)
    ELSE LET r == LoadsText(StripQuotes(kv[conversation_id]))
         IN  IF r.exc # "none" THEN PyList(<<>>) ELSE r.val

(* MemGraphHelper.save_history: the store after SET key '<json>'; a        *)
(* transport error is logged and leaves the store as it was.               *)
save_history(kv, conversation_id, history, sent) ==
    LET value == json_dumps(history)
    IN  IF value.exc # "none" THEN [exc |-> value.exc, store |-> kv]
        ELSE [exc |-> "none",
              store |-> IF sent THEN [kv EXCEPT ![conversation_id] = Quoted(value.val)]
                        ELSE kv]

----------------------------------------------------------------------------
(* The orchestrator (persist_chat.py).  fault names what goes wrong in one *)
(* call: "none", "mkdir" (make_dirs raises), "rmdir" (delete_dir raises),  *)
(* "net" (the store command meets a transport error).                      *)

KeyRole == <<"r", "o", "l", "e">>
KeyContent == <<"c", "o", "n", "t", "e", "n", "t">>

(* {"role": ..., "content": ...} for one message of History.output() *)
HistoryRecord(message) ==
    PyDict(KeyRole :> PyStr(IF message.ai THEN "ai" ELSE "user")
           @@ KeyContent :> message.content)

(* A variant of the flattening loop that stops at agent0. *)
FlattenHistory_HeadOnly(heap, agent) ==
    IF ~Truthy(agent) THEN <<>>
    ELSE [i \in DOMAIN HistoryOutput(heap[agent.v].history) |->
              HistoryRecord(HistoryOutput(heap[agent.v].history)[i])]

(* The while loop of save_tmp_chat: every agent's messages, down the chain *)
RECURSIVE FlattenHistory(_, _)
FlattenHistory(heap, agent) ==
    IF ~Truthy(agent) THEN <<>>
    ELSE [i \in DOMAIN HistoryOutput(heap[agent.v].history) |->
              HistoryRecord(HistoryOutput(heap[agent.v].history)[i])]
         \o FlattenHistory(heap, Get(heap[agent.v].data, DATA_NAME_SUBORDINATE, PyNone))

(* A variant of save_tmp_chat without the BACKGROUND test. *)
save_tmp_chat_NoTypeTest(dirs, kv, inst, context, fault) ==
    IF fault = "mkdir"
    THEN [exc |-> "OSError", markers |-> dirs, store |-> kv, handshakes |-> 0]
    ELSE IF inst
    THEN [exc |-> "Exception", markers |-> dirs \cup {context.id}, store |-> kv,
          handshakes |-> 0]
    ELSE LET r == save_history(kv, context.id,
                               PyList(FlattenHistory(context.agents, context.agent0)),
                               fault # "net")
         IN  [exc |-> r.exc, markers |-> dirs \cup {context.id}, store |-> r.store,
              handshakes |-> 1]

(* save_tmp_chat(context) on marker directories dirs and store kv, with    *)
(* MemGraphHelper._instance set or not: the exception raised ("none" when  *)
(* it returns) and the directories and store it leaves.                    *)
save_tmp_chat(dirs, kv, inst, context, fault) ==
    IF context.type = "BACKGROUND"
    THEN [exc |-> "none", markers |-> dirs, store |-> kv, handshakes |-> 0]
    ELSE IF fault = "mkdir"
    THEN [exc |-> "OSError", markers |-> dirs, store |-> kv, handshakes |-> 0]
    ELSE IF inst
    THEN [exc |-> "Exception", markers |-> dirs \cup {context.id}, store |-> kv,
          handshakes |-> 0]
    ELSE LET r == save_history(kv, context.id,
                               PyList(FlattenHistory(context.agents, context.agent0)),
                               fault # "net")
         IN  [exc |-> r.exc, markers |-> dirs \cup {context.id}, store |-> r.store,
              handshakes |-> 1]

(* save_tmp_chats: the loop over AgentContext._contexts from position i;   *)
(* an exception of save_tmp_chat leaves the loop.                          *)
RECURSIVE save_tmp_chats(_, _, _, _, _, _)
save_tmp_chats(ctxs, i, dirs, kv, inst, faults) ==
    IF i > Len(ctxs) THEN [exc |-> "none", markers |-> dirs, store |-> kv, handshakes |-> 0]
    ELSE IF ctxs[i].type = "BACKGROUND"
    THEN save_tmp_chats(ctxs, i + 1, dirs, kv, inst, faults)
    ELSE LET r == save_tmp_chat(dirs, kv, inst, ctxs[i], faults[ctxs[i].id])
         IN  IF r.exc # "none" THEN r
             ELSE [save_tmp_chats(ctxs, i + 1, r.markers, r.store, inst, faults)
                      EXCEPT !.handshakes = @ + r.handshakes]


(* AgentContext(config=config, id=user_id): a new context with one root    *)
(* agent, put in AgentContext._contexts under its id.                      *)
Now == [secs |-> 9, us |-> 0]
NewAgentContext(id) ==
    [id |-> id, name |-> <<>>, created_at |-> <<Now>>, type |-> "USER",
     last_message |-> <<Now>>, log |-> NewLog(NewGuid), paused |-> FALSE,
     agents |-> <<NewAgent(0)>>, agent0 |-> PyAgent(1), streaming_agent |-> PyNone]
Register(ctxs, context) ==
    IF \E i \in DOMAIN ctxs : ctxs[i].id = context.id
    THEN [i \in DOMAIN ctxs |-> IF ctxs[i].id = context.id THEN context ELSE ctxs[i]]
    ELSE Append(ctxs, context)

(* The replay loop of load_tmp_chats over messages[i..]: the history built *)
(* and the exception that ended the loop, "none" when it ran through.      *)
RECURSIVE ReplayMessages(_, _, _)
ReplayMessages(messages, i, hist) ==
    IF i > Len(messages) THEN [exc |-> "none", history |-> hist]
    ELSE IF messages[i].t # "dict" THEN [exc |-> "TypeError", history |-> hist]
    ELSE IF KeyRole \notin DOMAIN messages[i].v \/ KeyContent \notin DOMAIN messages[i].v
    THEN [exc |-> "KeyError", history |-> hist]
    ELSE ReplayMessages(messages, i + 1,
            add_message(hist,
                        messages[i].v[KeyRole].t = "str" /\ messages[i].v[KeyRole].v = "ai",
                        messages[i].v[KeyContent]))

(* The body of the loop of load_tmp_chats for one folder, inside its try:  *)
(* the contexts and the ids collected after it.  An exception is caught    *)
(* where it is raised: the context made before it stays registered.        *)
LoadFolder(ctxs, ctxids, kv, folder_name, sent) ==
    LET history == load_history(kv, folder_name, sent)
        context == NewAgentContext(folder_name)
        replay == ReplayMessages(history.v, 1, context.agents[1].history)
    IN  IF ~Truthy(history) THEN [contexts |-> ctxs, ctxids |-> ctxids]
        ELSE IF history.t # "list"
        THEN [contexts |-> Register(ctxs, context), ctxids |-> ctxids]
        ELSE [contexts |-> Register(ctxs,
                             [context EXCEPT !.agents[1].history = replay.history]),
              ctxids |-> IF replay.exc = "none" THEN Append(ctxids, context.id)
                         ELSE ctxids]

(* A variant of the loop whose try encloses the whole loop: the first      *)
(* exception ends it.                                                      *)
RECURSIVE LoadLoop_TryOutside(_, _, _, _, _, _)
LoadLoop_TryOutside(folders, i, ctxs, ctxids, kv, sent) ==
    IF i > Len(folders) THEN [contexts |-> ctxs, ctxids |-> ctxids]
    ELSE LET r == LoadFolder(ctxs, ctxids, kv, folders[i], sent[folders[i]])
             history == load_history(kv, folders[i], sent[folders[i]])
         IN  IF Truthy(history) /\ Len(r.ctxids) = Len(ctxids) THEN r
             ELSE LoadLoop_TryOutside(folders, i + 1, r.contexts, r.ctxids, kv, sent)

(* The loop of load_tmp_chats over folders[i..]. *)
RECURSIVE LoadLoop(_, _, _, _, _, _)
LoadLoop(folders, i, ctxs, ctxids, kv, sent) ==
    IF i > Len(folders) THEN [contexts |-> ctxs, ctxids |-> ctxids]
    ELSE LET r == LoadFolder(ctxs, ctxids, kv, folders[i], sent[folders[i]])
         IN  LoadLoop(folders, i + 1, r.contexts, r.ctxids, kv, sent)

(* A variant of load_tmp_chats whose client has no singleton guard. *)
load_tmp_chats_NoGuard(ctxs, kv, inst, folders, sent) ==
    LET r == LoadLoop(folders, 1, ctxs, <<>>, kv, sent)
    IN  [exc |-> "none", contexts |-> r.contexts, ctxids |-> r.ctxids, handshakes |-> 1]

(* load_tmp_chats over the marker folders in the order list_files gives. *)
load_tmp_chats(ctxs, kv, inst, folders, sent) ==
    IF inst THEN [exc |-> "Exception", contexts |-> ctxs, ctxids |-> <<>>, handshakes |-> 0]
    ELSE LET r == LoadLoop(folders, 1, ctxs, <<>>, kv, sent)
         IN  [exc |-> "none", contexts |-> r.contexts, ctxids |-> r.ctxids,
              handshakes |-> 1]

(* A variant of remove_chat that deletes the key. *)
remove_chat_DeleteKey(dirs, kv, inst, ctxid, fault) ==
    IF fault = "rmdir"
    THEN [exc |-> "OSError", markers |-> dirs, store |-> kv, handshakes |-> 0]
    ELSE IF inst
    THEN [exc |-> "Exception", markers |-> dirs \ {ctxid}, store |-> kv, handshakes |-> 0]
    ELSE [exc |-> "none", markers |-> dirs \ {ctxid},
          store |-> IF fault # "net" THEN [kv EXCEPT ![ctxid] = Nil] ELSE kv,
          handshakes |-> 1]

(* remove_chat(ctxid) *)
remove_chat(dirs, kv, inst, ctxid, fault) ==
    IF fault = "rmdir"
    THEN [exc |-> "OSError", markers |-> dirs, store |-> kv, handshakes |-> 0]
    ELSE IF inst
    THEN [exc |-> "Exception", markers |-> dirs \ {ctxid}, store |-> kv, handshakes |-> 0]
    ELSE LET r == save_history(kv, ctxid, PyList(<<>>), fault # "net")
         IN  [exc |-> r.exc, markers |-> dirs \ {ctxid}, store |-> r.store,
              handshakes |-> 1]

----------------------------------------------------------------------------
(* Spec: the orchestrator over the live contexts, the marker directories   *)
(* and the store.                                                          *)

CtxIds == {"a", "b"}

Node(h) == [data |-> EmptyDict, history |-> h]
LiveContext(id, type, nodes) ==
    MkContext(id, <<>>, <<Now>>, type, <<Now>>, nodes, PyNone, PlainLog)
(* The contexts the runtime may hold at the start. *)
InitContexts ==
    LET A == {LiveContext("a", "USER", <<Node(<<MsgUser, MsgAi>>)>>),
              LiveContext("a", "TASK", <<Node(<<MsgUser>>), Node(<<MsgAi, MsgUser>>)>>),
              LiveContext("a", "BACKGROUND", <<Node(<<MsgUser>>)>>),
              LiveContext("a", "USER", <<Node(<<>>)>>)}
        B == {LiveContext("b", "USER", <<Node(<<MsgAi>>)>>),
              LiveContext("b", "BACKGROUND", <<Node(<<MsgAi>>)>>)}
    IN  {<<>>} \cup {<<x>> : x \in A} \cup {<<x, y>> : x \in A, y \in B}
(* What the store may hold at the start: nothing, a saved history, text    *)
(* that is no JSON, a list with a record that lacks its role, the empty    *)
(* list, a document that is no list, a history saved without quotes.       *)
StoredHistory == JArr(<<JsonEncode(HistoryRecord(MsgAi))>>)
InitStores ==
    {("a" :> x) @@ ("b" :> y) :
        x \in {Nil, Quoted(StoredHistory), Quoted(NotJson),
               Quoted(JArr(<<JsonEncode(HistoryRecord(MsgUser)),
                             JObj(KeyContent :> JStr("hello"))>>)),
               Quoted(JArr(<<>>)), Quoted(JNum(5)),
               [Quoted(StoredHistory) EXCEPT !.quoted = FALSE]},
        y \in {Nil, Quoted(StoredHistory)}}

Init ==
    /\ contexts \in InitContexts
    /\ markers \in SUBSET CtxIds
    /\ store \in InitStores
    /\ instance = FALSE
    /\ ret = Idle
    /\ codecIn = Idle
    /\ codecOut = Idle
    /\ CliIdle

Perms(S) == {f \in [1..Cardinality(S) -> S] : \A i, j \in DOMAIN f : i # j => f[i] # f[j]}

SaveTmpChat ==
    \E i \in DOMAIN contexts, fault \in {"none", "mkdir", "net"} :
        LET r == save_tmp_chat(markers, store, instance, contexts[i], fault)
        IN  /\ markers' = r.markers
            /\ store' = r.store
            /\ ret' = [op |-> "save_tmp_chat", id |-> contexts[i].id, fault |-> fault,
                       exc |-> r.exc, handshakes |-> r.handshakes]
            /\ UNCHANGED <<contexts, instance, codecVars, cliVars>>

SaveTmpChats ==
    \E faults \in [{contexts[i].id : i \in DOMAIN contexts} -> {"none", "mkdir", "net"}] :
        LET r == save_tmp_chats(contexts, 1, markers, store, instance, faults)
        IN  /\ markers' = r.markers
            /\ store' = r.store
            /\ ret' = [op |-> "save_tmp_chats", faults |-> faults, exc |-> r.exc,
                       handshakes |-> r.handshakes]
            /\ UNCHANGED <<contexts, instance, codecVars, cliVars>>

LoadTmpChats ==
    \E folders \in Perms(markers), sent \in [markers -> BOOLEAN] :
        LET r == load_tmp_chats(contexts, store, instance, folders, sent)
        IN  /\ contexts' = r.contexts
            /\ ret' = [op |-> "load_tmp_chats", folders |-> folders, sent |-> sent,
                       exc |-> r.exc, ctxids |-> r.ctxids, handshakes |-> r.handshakes]
            /\ UNCHANGED <<markers, store, instance, codecVars, cliVars>>

RemoveChat ==
    \E ctxid \in CtxIds, fault \in {"none", "rmdir", "net"} :
        LET r == remove_chat(markers, store, instance, ctxid, fault)
        IN  /\ markers' = r.markers
            /\ store' = r.store
            /\ ret' = [op |-> "remove_chat", id |-> ctxid, fault |-> fault, exc |-> r.exc,
                       handshakes |-> r.handshakes]
            /\ UNCHANGED <<contexts, instance, codecVars, cliVars>>

(* MemGraphHelper.get_instance() *)
GetInstance ==
    /\ instance' = TRUE
    /\ ret' = [op |-> "get_instance", handshakes |-> IF instance THEN 0 ELSE 1]
    /\ UNCHANGED <<contexts, markers, store, codecVars, cliVars>>

(* disconnect() on the object get_instance() returned *)
Disconnect ==
    /\ instance
    /\ instance' = FALSE
    /\ ret' = [op |-> "disconnect"]
    /\ UNCHANGED <<contexts, markers, store, codecVars, cliVars>>

Next ==
    \/ SaveTmpChat
    \/ SaveTmpChats
    \/ LoadTmpChats
    \/ RemoveChat
    \/ GetInstance
    \/ Disconnect

Spec == Init /\ [][Next]_vars

----------------------------------------------------------------------------
(* Properties of the orchestrator (checked under Spec).                    *)

Range(f) == {f[i] : i \in DOMAIN f}
ContextOf(ctxs, id) == ctxs[CHOOSE i \in DOMAIN ctxs : ctxs[i].id = id]

(* The empty list as save_history writes it. *)
Tombstone == Quoted(JArr(<<>>))

ValidStored(value) ==
    /\ value.present
    /\ value.doc.t = "jarr"
    /\ Len(value.doc.v) > 0
    /\ \A i \in DOMAIN value.doc.v :
          /\ value.doc.v[i].t = "jobj"
          /\ {KeyRole, KeyContent} \subseteq DOMAIN value.doc.v[i].v
(* A stored value whose replay raises: it decodes to something true that   *)
(* is no list of such records.                                             *)
RaisesInReplay(value) ==
    /\ value.present
    /\ value.doc.t \in {"jarr", "jnum"}
    /\ value.doc.t = "jarr" => Len(value.doc.v) > 0
    /\ ~ValidStored(value)

(* C4: load_tmp_chats returns the id of every marker folder whose GET was  *)
(* answered with a valid non-empty history, whatever happened to the       *)
(* other folders (transport error, text that does not decode, malformed    *)
(* record) and wherever they come in the iteration.                        *)
C4_LoadIsolation ==
    (ret.op = "load_tmp_chats" /\ ret.exc = "none") =>
        \A f \in markers :
            (ret.sent[f] /\ ValidStored(store[f])) => f \in Range(ret.ctxids)

C4_Witness ==
    /\ ret.op = "load_tmp_chats"
    /\ ret.exc = "none"
    /\ Len(ret.folders) = 2
    /\ ret.sent[ret.folders[1]]
    /\ RaisesInReplay(store[ret.folders[1]])
    /\ ret.folders[1] \notin Range(ret.ctxids)
    /\ ret.folders[2] \in Range(ret.ctxids)

(* The messages of a chain, agent0's first, then each subordinate's. *)
RECURSIVE ConcatHistories(_, _)
ConcatHistories(heap, w) ==
    IF w = <<>> THEN <<>> ELSE heap[Head(w)].history \o ConcatHistories(heap, Tail(w))
ChainHistory(c) == ConcatHistories(c.agents, Walk(c.agents, c.agent0))
(* The value a save of context c is meant to leave in the store. *)
SavedValue(c) ==
    Quoted(JArr([i \in DOMAIN ChainHistory(c) |->
        JObj(KeyRole :> JStr(IF ChainHistory(c)[i].ai THEN "ai" ELSE "user")
             @@ KeyContent :> JStr(ChainHistory(c)[i].content.v))]))

(* C5: in save_tmp_chats, a context whose save fails does not keep the     *)
(* other live non-BACKGROUND contexts from being saved.                    *)
C5_SaveIsolation ==
    (ret.op = "save_tmp_chats" /\ ~instance) =>
        \A i \in DOMAIN contexts :
            (contexts[i].type # "BACKGROUND" /\ ret.faults[contexts[i].id] = "none") =>
                /\ contexts[i].id \in markers
                /\ store[contexts[i].id] = SavedValue(contexts[i])

(* C6: a load_tmp_chats that follows save_tmp_chat(c), c not BACKGROUND    *)
(* and with a non-empty history, both reaching the store, leaves under     *)
(* c.id a context with a single root agent whose history is the messages   *)
(* of c's chain, agent0's first, in order, roles and contents kept.        *)
C6_SaveThenLoad ==
    [][(/\ ret.op = "save_tmp_chat"
        /\ ret.exc = "none"
        /\ ret.fault = "none"
        /\ ContextOf(contexts, ret.id).type # "BACKGROUND"
        /\ ChainHistory(ContextOf(contexts, ret.id)) # <<>>
        /\ ret'.op = "load_tmp_chats"
        /\ ret'.exc = "none"
        /\ ret'.sent[ret.id])
       => /\ ret.id \in Range(ret'.ctxids)
          /\ Len(ContextOf(contexts', ret.id).agents) = 1
          /\ ContextOf(contexts', ret.id).agent0 = PyAgent(1)
          /\ DOMAIN ContextOf(contexts', ret.id).agents[1].data = {}
          /\ ContextOf(contexts', ret.id).agents[1].history
                = ChainHistory(ContextOf(contexts, ret.id))]_vars

C6_Witness ==
    /\ ret.op = "load_tmp_chats"
    /\ \E i \in DOMAIN contexts :
          /\ contexts[i].id \in Range(ret.ctxids)
          /\ Len(contexts[i].agents) = 1
          /\ contexts[i].agents[1].history = <<MsgUser, MsgAi, MsgUser>>

(* C7: no save_tmp_chat or save_tmp_chats call creates the marker          *)
(* directory of a BACKGROUND context or writes the store under its id.     *)
C7_BackgroundExcluded ==
    [][ret'.op \in {"save_tmp_chat", "save_tmp_chats"} =>
          \A i \in DOMAIN contexts :
              contexts[i].type = "BACKGROUND" =>
                  /\ contexts[i].id \in markers' <=> contexts[i].id \in markers
                  /\ store'[contexts[i].id] = store[contexts[i].id]]_vars

C7_Witness ==
    /\ ret.op = "save_tmp_chat"
    /\ ret.exc = "none"
    /\ ret.fault = "none"
    /\ ContextOf(contexts, ret.id).type = "BACKGROUND"
    /\ ret.id \notin markers
    /\ ~store[ret.id].present

(* The operations that talk to the store. *)
PersistenceOps == {"save_tmp_chat", "save_tmp_chats", "load_tmp_chats", "remove_chat"}

(* C12: across any sequence of persistence operations the session          *)
(* handshake is performed only on first access: an operation that follows  *)
(* one that performed it performs none, and no operation performs it more  *)
(* than once.                                                              *)
C12_SharedClient ==
    [][ret'.op \in PersistenceOps =>
          /\ ret'.handshakes <= 1
          /\ (ret.op \in PersistenceOps /\ ret.handshakes > 0) => ret'.handshakes = 0]_vars

(* The call reported in r, made on contexts ctxs, gets as far as           *)
(* constructing its client: it is not ended before by the BACKGROUND test  *)
(* or by the marker directory's failure.                                   *)
ReachesConstructor(ctxs, r) ==
    CASE r.op = "save_tmp_chat" ->
            ContextOf(ctxs, r.id).type # "BACKGROUND" /\ r.fault # "mkdir"
      [] r.op = "save_tmp_chats" ->
            LET live == {i \in DOMAIN ctxs : ctxs[i].type # "BACKGROUND"}
            IN  live # {} /\ r.faults[ctxs[Least(live)].id] # "mkdir"
      [] r.op = "load_tmp_chats" -> TRUE
      [] r.op = "remove_chat" -> r.fault # "rmdir"

(* C14: MemGraphHelper._instance is set only by get_instance() and cleared *)
(* only by disconnect(); a persistence operation never changes it, and one *)
(* that constructs its client fails with the singleton exception exactly   *)
(* when _instance is set, and constructs its client otherwise.             *)
C14_SingletonGuard ==
    [][/\ ret'.op = "get_instance" => instance'
       /\ ret'.op = "disconnect" => ~instance'
       /\ instance' # instance => ret'.op \in {"get_instance", "disconnect"}
       /\ ret'.op \in PersistenceOps =>
             /\ instance' = instance
             /\ ReachesConstructor(contexts, ret') =>
                   /\ ret'.exc = "Exception" <=> instance
                   /\ ~instance => ret'.handshakes >= 1
             /\ ~ReachesConstructor(contexts, ret') =>
                   (ret'.exc # "Exception" /\ ret'.handshakes = 0)]_vars

(* The singleton exception is met between get_instance() and disconnect(). *)
C14_Witness ==
    /\ instance
    /\ ret.op = "load_tmp_chats"
    /\ ret.exc = "Exception"
    /\ Len(ret.folders) = 2
    /\ \A f \in markers : ValidStored(store[f])
    /\ ret.ctxids = <<>>

----------------------------------------------------------------------------
(* The command line (deepagents_cli/main.py).  One run of cli_main: the    *)
(* arguments given, what the environment answers, the position reached,    *)
(* and the calls made so far, in order.                                    *)

Call(fn, args) == [fn |-> fn, args |-> args]

(* What `mcp_server status` does: prints that the server is running, or    *)
(* that it is not, exits with an error, or cannot be found.                *)
Statuses == {"running", "stopped", "CalledProcessError", "FileNotFoundError"}

(* is_server_running: the two exceptions count as not running *)
is_server_running(status) ==
    IF status \in {"CalledProcessError", "FileNotFoundError"} THEN FALSE
    ELSE status = "running"

(* A variant of start_server that spawns whatever the status is. *)
start_server_AlwaysSpawn(status) ==
    [calls |-> <<Call("is_server_running", <<"bin">>), Call("Popen", <<"mcp_server", "start">>)>>,
     exc |-> IF status = "FileNotFoundError" THEN "FileNotFoundError" ELSE "none"]

(* start_server: the calls it makes and the exception it lets through;     *)
(* Popen of a binary that is not there raises FileNotFoundError.           *)
start_server(status) ==
    IF ~is_server_running(status)
    THEN [calls |-> <<Call("is_server_running", <<"bin">>),
                      Call("Popen", <<"mcp_server", "start">>)>>,
          exc |-> IF status = "FileNotFoundError" THEN "FileNotFoundError" ELSE "none"]
    ELSE [calls |-> <<Call("is_server_running", <<"bin">>)>>, exc |-> "none"]

(* What parse_args gives: args.command, or SystemExit for arguments        *)
(* argparse rejects.                                                       *)
Commands == {"help", "list", "reset", "interactive", "rejected"}
Modes == {"none", "app", "web"}

CliInit ==
    /\ cli \in [pc : {"cli_main"}, command : Commands, mode : Modes, log_file : BOOLEAN,
                status : Statuses, missing : BOOLEAN, calls : {<<>>}, exit : {"none"}]
    /\ codecIn = Idle
    /\ codecOut = Idle
    /\ OrchIdle

(* cli_main: start_server() *)
StartServer ==
    /\ cli.pc = "cli_main"
    /\ LET r == start_server(cli.status)
       IN  cli' = [cli EXCEPT
                     !.calls = @ \o <<Call("start_server", <<>>)>> \o r.calls,
                     !.pc = IF r.exc # "none" THEN "raised" ELSE "check_cli_dependencies",
                     !.exit = r.exc]
    /\ UNCHANGED <<codecVars, orchVars>>

(* cli_main: check_cli_dependencies(), which exits with 1 when a package   *)
(* is missing                                                              *)
CheckCliDependencies ==
    /\ cli.pc = "check_cli_dependencies"
    /\ cli' = [cli EXCEPT
                 !.calls = Append(@, Call("check_cli_dependencies", <<>>)),
                 !.pc = IF cli.missing THEN "exited" ELSE "parse_args",
                 !.exit = IF cli.missing THEN "SystemExit(1)" ELSE "none"]
    /\ UNCHANGED <<codecVars, orchVars>>

(* cli_main: args = parse_args() *)
ParseArgs ==
    /\ cli.pc = "parse_args"
    /\ cli' = [cli EXCEPT
                 !.calls = Append(@, Call("parse_args", <<>>)),
                 !.pc = IF cli.command = "rejected" THEN "exited" ELSE "dispatch",
                 !.exit = IF cli.command = "rejected" THEN "SystemExit(2)" ELSE "none"]
    /\ UNCHANGED <<codecVars, orchVars>>

ShowHelp ==
    /\ cli.pc = "dispatch"
    /\ cli.command = "help"
    /\ cli' = [cli EXCEPT !.calls = Append(@, Call("show_help", <<>>)), !.pc = "returned"]
    /\ UNCHANGED <<codecVars, orchVars>>

ListAgents ==
    /\ cli.pc = "dispatch"
    /\ cli.command = "list"
    /\ cli' = [cli EXCEPT !.calls = Append(@, Call("list_agents", <<>>)), !.pc = "returned"]
    /\ UNCHANGED <<codecVars, orchVars>>

ResetAgent ==
    /\ cli.pc = "dispatch"
    /\ cli.command = "reset"
    /\ cli' = [cli EXCEPT
                 !.calls = Append(@, Call("reset_agent", <<"agent", "source_agent">>)),
                 !.pc = "returned"]
    /\ UNCHANGED <<codecVars, orchVars>>

(* The interactive branch: the mode is set up, then main runs until it     *)
(* returns or the user interrupts it, which exits with 0.                  *)
Interactive ==
    /\ cli.pc = "dispatch"
    /\ cli.command = "interactive"
    /\ \E interrupted \in BOOLEAN :
          cli' = [cli EXCEPT
                    !.calls = @ \o (IF cli.mode = "app" THEN <<Call("setup_app_mode", <<>>)>>
                                    ELSE IF cli.mode = "web"
                                    THEN <<Call("setup_web_mode", <<>>)>>
                                    ELSE <<>>)
                                \o (IF cli.log_file THEN <<Call("get_log_filename", <<"agent">>)>>
                                    ELSE <<>>)
                                \o <<Call("main", <<"agent", cli.mode>>)>>,
                    !.pc = IF interrupted THEN "exited" ELSE "returned",
                    !.exit = IF interrupted THEN "SystemExit(0)" ELSE "none"]
    /\ UNCHANGED <<codecVars, orchVars>>

CliNext ==
    \/ StartServer
    \/ CheckCliDependencies
    \/ ParseArgs
    \/ ShowHelp
    \/ ListAgents
    \/ ResetAgent
    \/ Interactive

SpecCli == CliInit /\ [][CliNext]_vars

----------------------------------------------------------------------------
(* Properties of the command line (checked under SpecCli).                 *)

Calls(fn) == {i \in DOMAIN cli.calls : cli.calls[i].fn = fn}
AfterServer ==
    {"check_cli_dependencies", "parse_args", "show_help", "list_agents", "reset_agent",
     "setup_app_mode", "setup_web_mode", "get_log_filename", "main"}

============================================================================
